---- MODULE Spec2Model ----
(***************************************************************************)
(* Model of the BRASIL_PARALELO service plugin                             *)
(* (src/unshackle/services/BRASIL_PARALELO/__init__.py).                   *)
(*                                                                         *)
(* State: the fields of one service object that a handler reads after the  *)
(* constructor (title_id, slug) and what the most recent get_tracks and    *)
(* get_widevine_license calls did.  One action per handler: get_titles,    *)
(* get_tracks, get_widevine_license.  self.is_movie only selects the type  *)
(* of the object get_titles returns, which no handler reads back.          *)
(*                                                                         *)
(* The manifest text is modelled by what the XML parser makes of it:       *)
(* xml.etree.ElementTree (expat, namespace aware) stores every qualified   *)
(* tag and attribute name in Clark notation "{uri}local"; a prefix with no *)
(* xmlns binding is a ParseError.  Element.get(key) is a plain dictionary  *)
(* lookup of the literal key.                                              *)
(***************************************************************************)
EXTENDS Integers, Sequences, FiniteSets, TLC

VARIABLES
    title_id,     \* self.title_id, set by the constructor
    slug,         \* self.slug; Unset while the attribute does not exist
    tracks,       \* outcome of the most recent get_tracks call
    license,      \* outcome of the most recent get_widevine_license call
    titlesHist,   \* history of get_titles: slug of the latest response that was
                  \* valid, and whether a call has failed since
    prevRun       \* history of get_tracks: the outcome of the extraction run
                  \* before the latest one, when both ran on the same text

vars == <<title_id, slug, tracks, license, titlesHist, prevRun>>

----------------------------------------------------------------------------
(* Bounds of the model *)

MaxElems == 2       \* ContentProtection elements per manifest
MaxElemsRepeat == 1 \* the same, in the specification of repeated runs

----------------------------------------------------------------------------
(* Python values *)

None == "<None>"          \* Python None
Unset == "<unset>"        \* attribute not present on the object

\* Python truthiness of an Optional[str]
Truthy(v) == v # None /\ v # ""

----------------------------------------------------------------------------
(* Literals of the source *)

DefaultSlug == "entre-lobos"
Episode1TitleId == "62b0d862d12d4c0029f05602"
Episode1StreamId == "79f73236-4c3a-4998-8f5d-c14d33a91c9f"
DefaultStreamId == "d7137531-aab7-43f7-a15b-a64b0453b4ca"
MetadataEndpoint == "config.endpoints.metadata"

CencNS == "urn:mpeg:cenc:2013"
DashNS == "urn:mpeg:dash:schema:mpd:2011"
Mp4ProtectionScheme == "urn:mpeg:dash:mp4protection:2011"
WidevineScheme == "urn:uuid:edef8ba9-79d6-4ace-a3c8-27dcd51d21ed"
KidAttrKey == "cenc:default_KID"

----------------------------------------------------------------------------
(* Manifest texts the server may deliver.                                  *)
(* A text is described by: whether it is well formed, the URI its root     *)
(* binds the prefix "cenc" to ("" = no xmlns:cenc declaration), and its    *)
(* ContentProtection elements in document order.  An element is written    *)
(* with a default namespace (ns), a schemeIdUri attribute, optionally a    *)
(* default_KID attribute (kidName is its qualified name as written, "" if  *)
(* absent) and optionally one child <cenc:pssh> (hasPssh) with its text.   *)

PlayReadyScheme == "urn:uuid:9a04f079-9840-4286-ab92-e65be0885f95"

CP(ns, scheme, kidName, kidValue, hasPssh, psshText) ==
    [ns |-> ns, scheme |-> scheme, kidName |-> kidName, kidValue |-> kidValue,
     hasPssh |-> hasPssh, psshText |-> psshText]

Shapes ==
    { CP(DashNS, Mp4ProtectionScheme, "cenc:default_KID", "K1", FALSE, ""),
      CP(DashNS, Mp4ProtectionScheme, "cenc:default_KID", "", FALSE, ""),
      CP(DashNS, Mp4ProtectionScheme, "", "", FALSE, ""),
      CP(DashNS, WidevineScheme, "", "", TRUE, "P1"),
      CP(DashNS, WidevineScheme, "", "", TRUE, ""),
      CP(DashNS, PlayReadyScheme, "", "", TRUE, "P2") }

SeqsUpTo(S, n) == UNION { [1..k -> S] : k \in 0..n }

\* a text that is not well formed XML
BrokenText == [wellFormed |-> FALSE, cencBinding |-> "", elems |-> << >>]

ManifestsUpTo(n) ==
    {BrokenText}
    \cup [wellFormed : {TRUE}, cencBinding : {"", CencNS},
          elems : SeqsUpTo(Shapes, n)]

Manifests == ManifestsUpTo(MaxElems)

----------------------------------------------------------------------------
(* xml.etree.ElementTree *)

\* Clark notation of a qualified name under the namespace uri
Clark(uri, local) == IF uri = "" THEN local ELSE "{" \o uri \o "}" \o local

\* the text uses the prefix "cenc" somewhere
UsesCencPrefix(m) ==
    \E i \in 1..Len(m.elems) :
        m.elems[i].kidName = "cenc:default_KID" \/ m.elems[i].hasPssh

\* ET.fromstring raises ParseError: not well formed, or an unbound prefix
Malformed(m) == ~m.wellFormed \/ (m.cencBinding = "" /\ UsesCencPrefix(m))

\* the attribute dictionary of a parsed element: a set of <<key, value>>
ParsedAttrib(m, e) ==
    {<<"schemeIdUri", e.scheme>>}
    \cup (IF e.kidName = "cenc:default_KID"
            THEN {<<Clark(m.cencBinding, "default_KID"), e.kidValue>>}
          ELSE IF e.kidName = "default_KID"
            THEN {<<"default_KID", e.kidValue>>}
          ELSE {})

\* the children of a parsed element; an element without text has text None
ParsedChildren(m, e) ==
    IF e.hasPssh
      THEN << [tag |-> Clark(m.cencBinding, "pssh"),
               text |-> IF e.psshText = "" THEN None ELSE e.psshText] >>
      ELSE << >>

ParsedElement(m, e) ==
    [tag |-> Clark(e.ns, "ContentProtection"),
     attrib |-> ParsedAttrib(m, e),
     children |-> ParsedChildren(m, e)]

\* ET.fromstring(manifest_xml): the descendants of the root in document order
FromString(m) == [i \in 1..Len(m.elems) |-> ParsedElement(m, m.elems[i])]

\* Element.get(key): dictionary lookup of the literal key
Get(el, key) ==
    IF \E p \in el.attrib : p[1] = key
      THEN (CHOOSE p \in el.attrib : p[1] = key)[2]
      ELSE None

\* the prefix of a path step resolved through the namespaces mapping
ResolveTag(prefix, local) ==
    IF prefix = "cenc" THEN Clark(CencNS, local)
    ELSE IF prefix = "dash" THEN Clark(DashNS, local)
    ELSE local

\* root.findall(".//dash:ContentProtection", namespaces)
FindAllCP(root) ==
    SelectSeq(root, LAMBDA el : el.tag = ResolveTag("dash", "ContentProtection"))

\* root.findall(".//dash:ContentProtection[@schemeIdUri='scheme']", namespaces)
FindAllCPScheme(root, scheme) ==
    SelectSeq(FindAllCP(root), LAMBDA el : Get(el, "schemeIdUri") = scheme)

\* cp.find("cenc:pssh", namespaces): the matching children (first one is found)
FindPssh(cp) ==
    SelectSeq(cp.children, LAMBDA c : c.tag = ResolveTag("cenc", "pssh"))

\* pssh_elem.text if pssh_elem is not None else None
PsshText(cp) ==
    IF FindPssh(cp) = << >> THEN None ELSE FindPssh(cp)[1].text

----------------------------------------------------------------------------
(* get_tracks: extraction of kid and pssh from the parsed manifest *)

\* manifest_xml = manifest_resp.text
ManifestXmlStale(text) == IF tracks.fetched THEN tracks.manifest ELSE text

ManifestXml(text) == text

\* for cp in <mp4protection elements>: kid = cp.get(...); if kid: break
RECURSIVE LoopKid(_, _, _)
LoopKid(cps, i, kid) ==
    IF i > Len(cps) THEN kid
    ELSE LET k == Get(cps[i], KidAttrKey)
         IN IF Truthy(k) THEN k ELSE LoopKid(cps, i + 1, k)

\* for cp in <elements>: pssh = text of cenc:pssh child; if pssh: break
RECURSIVE LoopPssh(_, _, _)
LoopPssh(cps, i, pssh) ==
    IF i > Len(cps) THEN pssh
    ELSE LET p == PsshText(cps[i])
         IN IF Truthy(p) THEN p ELSE LoopPssh(cps, i + 1, p)

\* if kid:   (the Widevine scan is entered)
WidevineScanGuardAlways(kid) == TRUE

WidevineScanGuard(kid) == Truthy(kid)

\* if kid and not pssh:   (the fallback scan is entered)
FallbackScanGuard(kid, pssh) == Truthy(kid) /\ ~Truthy(pssh)

\* if not kid or not pssh: raise ValueError
MissingKidOrPsshOnlyPssh(kid, pssh) == Truthy(kid) /\ ~Truthy(pssh)

MissingKidOrPssh(kid, pssh) == ~Truthy(kid) \/ ~Truthy(pssh)

\* lines 188-214: kid, pssh and which scans were entered
Extract(root) ==
    LET kid == LoopKid(FindAllCPScheme(root, Mp4ProtectionScheme), 1, None)
        wv == WidevineScanGuard(kid)
        pssh1 == IF wv
                   THEN LoopPssh(FindAllCPScheme(root, WidevineScheme), 1, None)
                   ELSE None
        fb == FallbackScanGuard(kid, pssh1)
        pssh2 == IF fb THEN LoopPssh(FindAllCP(root), 1, pssh1) ELSE pssh1
    IN [kid |-> kid, pssh |-> pssh2, kidScan |-> TRUE, wvScan |-> wv,
        fbScan |-> fb]

----------------------------------------------------------------------------
(* Inputs: call arguments and the server's answers *)

OtherTitleId == "5f1a2b3c4d5e6f7a8b9c0d1e"
TitleArgs == {None, Episode1TitleId, OtherTitleId}

\* Answers to the get_titles metadata query.  A field that the handler does
\* not read because an earlier check already raised is fixed.
TitlesResponses ==
    [httpOk : {FALSE}, errors : {FALSE}, hasMedia : {FALSE}, name : {None},
     slug : {None}]
    \cup [httpOk : {TRUE}, errors : {TRUE}, hasMedia : {FALSE}, name : {None},
          slug : {None}]
    \cup [httpOk : {TRUE}, errors : {FALSE}, hasMedia : {FALSE}, name : {None},
          slug : {None}]
    \cup [httpOk : {TRUE}, errors : {FALSE}, hasMedia : {TRUE},
          name : {None, "Name"}, slug : {None, "", "slug-a", "slug-b"}]

\* Answers to the get_tracks metadata query
TracksResponses ==
    [httpOk : {FALSE}, errors : {FALSE}, hasMedia : {FALSE}, content_id : {None}]
    \cup [httpOk : {TRUE}, errors : {TRUE}, hasMedia : {FALSE},
          content_id : {None}]
    \cup [httpOk : {TRUE}, errors : {FALSE}, hasMedia : BOOLEAN,
          content_id : {None, "content-1"}]

\* Answers to the manifest download
ManifestResponses(texts) ==
    {[httpOk |-> FALSE, text |-> BrokenText]}
    \cup [httpOk : {TRUE}, text : texts]

\* Answers to the license query
LicenseResponses ==
    [httpOk : {FALSE}, errors : {FALSE}, hasData : {FALSE}, hasLicense : {FALSE}]
    \cup [httpOk : {TRUE}, errors : {TRUE}, hasData : {FALSE},
          hasLicense : {FALSE}]
    \cup [httpOk : {TRUE}, errors : {FALSE}, hasData : BOOLEAN,
          hasLicense : BOOLEAN]

----------------------------------------------------------------------------
(* Results of the handlers *)

NoDrm == [built |-> FALSE, pssh |-> None, content_id |-> None,
          license_url |-> None, kid |-> None]

NoExtract == [kid |-> None, pssh |-> None, kidScan |-> FALSE, wvScan |-> FALSE,
              fbScan |-> FALSE]

\* What a get_tracks call did: the title id it resolved, the slug it sent
\* (None when no query was sent) and the slug due by the get_titles history,
\* the exception it raised (result is its message) or result "returned",
\* the manifest URL, the text fetched, and the extraction's locals.
TracksResult(title, sent, result, exc, url, fetched, manifest, ex, parsed, drm) ==
    [title |-> title, sentSlug |-> sent,
     slugDue |-> IF sent = None THEN None
                 ELSE IF titlesHist.ok = None THEN DefaultSlug ELSE titlesHist.ok,
     result |-> result, exc |-> exc,
     manifest_url |-> url, fetched |-> fetched, manifest |-> manifest,
     kid |-> ex.kid, pssh |-> ex.pssh, kidScan |-> ex.kidScan,
     wvScan |-> ex.wvScan, fbScan |-> ex.fbScan,
     parseManifestCalled |-> parsed, drm |-> drm]

TracksFailure(title, sent, result, exc, url) ==
    TracksResult(title, sent, result, exc, url, FALSE, BrokenText, NoExtract,
                 FALSE, NoDrm)

NoPrevRun == [same |-> FALSE, sentSlug |-> None, result |-> None, exc |-> None,
              kid |-> None, pssh |-> None]

\* history kept by a get_tracks call whose result is out
PrevRunAfter(out) ==
    IF out.fetched /\ tracks.fetched /\ out.manifest = tracks.manifest
      THEN [same |-> TRUE, sentSlug |-> tracks.sentSlug, result |-> tracks.result,
            exc |-> tracks.exc, kid |-> tracks.kid, pssh |-> tracks.pssh]
      ELSE NoPrevRun

----------------------------------------------------------------------------
(* __init__ *)

Init ==
    /\ title_id \in TitleArgs
    /\ slug = Unset
    /\ tracks = [TracksFailure(None, None, "not called", None, None)
                   EXCEPT !.slugDue = None]
    /\ license = [sent |-> FALSE, media_id |-> None, forTitle |-> None,
                  result |-> "not called", exc |-> None]
    /\ titlesHist = [ok |-> None, failedSince |-> FALSE]
    /\ prevRun = NoPrevRun

----------------------------------------------------------------------------
(* get_titles *)

\* title_id = title_id or self.title_id
ResolveTitle(arg) == IF Truthy(arg) THEN arg ELSE title_id

\* the validations of lines 76-102 in order: the exception raised, or "ok"
TitlesValidation(resp) ==
    IF ~resp.httpOk THEN [result |-> "http error", exc |-> "Exception"]
    ELSE IF resp.errors THEN [result |-> "graphql errors", exc |-> "ValueError"]
    ELSE IF ~resp.hasMedia THEN [result |-> "no media", exc |-> "ValueError"]
    ELSE IF ~Truthy(resp.name) THEN [result |-> "no name", exc |-> "KeyError"]
    ELSE IF ~Truthy(resp.slug) THEN [result |-> "no slug", exc |-> "ValueError"]
    ELSE [result |-> "ok", exc |-> None]

\* self.slug after the call (line 104 is reached only past every validation)
SlugAfterTitlesEarly(resp, v) ==
    IF resp.httpOk /\ ~resp.errors /\ resp.hasMedia /\ Truthy(resp.slug)
      THEN resp.slug ELSE slug

SlugAfterTitles(resp, v) == IF v.result = "ok" THEN resp.slug ELSE slug

\* history: the response is one that passes every validation
ResponseValid(resp) ==
    /\ resp.httpOk /\ ~resp.errors /\ resp.hasMedia
    /\ Truthy(resp.name) /\ Truthy(resp.slug)

\* the whole call: <<self.slug after it, titlesHist after it>>
TitlesCall(arg, resp) ==
    IF ~Truthy(ResolveTitle(arg))
      THEN <<slug, [titlesHist EXCEPT !.failedSince = TRUE]>>
      ELSE <<SlugAfterTitles(resp, TitlesValidation(resp)),
             IF ResponseValid(resp)
               THEN [ok |-> resp.slug, failedSince |-> FALSE]
               ELSE [titlesHist EXCEPT !.failedSince = TRUE]>>

GetTitles ==
    \E out \in {TitlesCall(arg, resp) : arg \in TitleArgs, resp \in TitlesResponses} :
        /\ slug' = out[1]
        /\ titlesHist' = out[2]
        /\ UNCHANGED <<title_id, tracks, license, prevRun>>

----------------------------------------------------------------------------
(* get_tracks *)

\* "slug": getattr(self, "slug", "entre-lobos")
SlugSent == IF slug = Unset THEN DefaultSlug ELSE slug

\* the validations of lines 137-157 in order: the exception raised, or "ok"
TracksValidation(resp) ==
    IF ~resp.httpOk THEN [result |-> "http error", exc |-> "Exception"]
    ELSE IF resp.errors THEN [result |-> "graphql errors", exc |-> "ValueError"]
    ELSE IF ~resp.hasMedia THEN [result |-> "no media", exc |-> "ValueError"]
    ELSE IF ~Truthy(resp.content_id)
      THEN [result |-> "no content_id", exc |-> "ValueError"]
    ELSE [result |-> "ok", exc |-> None]

\* lines 160-162
StreamId(title) ==
    IF title = Episode1TitleId THEN Episode1StreamId ELSE DefaultStreamId

\* line 163
ManifestUrl(content_id, title) ==
    "https://stream.brasilparalelo.com.br/" \o content_id \o "/"
        \o StreamId(title) \o "/mpd/stream.mpd"

ParseFailureMsg == "Falha ao parsear o manifest MPD XML"
MissingMsg == "Nao foi possivel extrair kid ou pssh do manifest MPD"

\* except ET.ParseError: raise ValueError(...)
ParseFailureAsMissing == [result |-> MissingMsg, exc |-> "ValueError"]

ParseFailure == [result |-> ParseFailureMsg, exc |-> "ValueError"]

\* raise ValueError(f"... kid ou pssh do manifest MPD: {manifest_url}")
MissingFailure == [result |-> MissingMsg, exc |-> "ValueError"]

\* lines 222-229: the descriptor put on tracks[0]
WidevineDrm(pssh, content_id, kid) ==
    [built |-> TRUE, pssh |-> pssh, content_id |-> content_id,
     license_url |-> MetadataEndpoint, kid |-> kid]

\* lines 165-230, once the manifest URL is known
TracksFromManifest(title, url, content_id, mresp) ==
    IF ~mresp.httpOk
      THEN TracksFailure(title, SlugSent, "manifest http error", "Exception", url)
    ELSE IF Malformed(ManifestXml(mresp.text))
      THEN TracksResult(title, SlugSent, ParseFailure.result, ParseFailure.exc,
                        url, TRUE, mresp.text, NoExtract, FALSE, NoDrm)
    ELSE LET ex == Extract(FromString(ManifestXml(mresp.text)))
         IN IF MissingKidOrPssh(ex.kid, ex.pssh)
              THEN TracksResult(title, SlugSent, MissingFailure.result,
                                MissingFailure.exc, url, TRUE, mresp.text, ex,
                                FALSE, NoDrm)
              ELSE TracksResult(title, SlugSent, "returned", None, url, TRUE,
                                mresp.text, ex, TRUE,
                                WidevineDrm(ex.pssh, content_id, ex.kid))

\* the whole call, for the resolved title id and the server's two answers
TracksCall(title, resp, mresp) ==
    IF ~Truthy(title)
      THEN TracksFailure(title, None, "no title", "ValueError", None)
    ELSE IF TracksValidation(resp).result # "ok"
      THEN TracksFailure(title, SlugSent, TracksValidation(resp).result,
                         TracksValidation(resp).exc, None)
    ELSE TracksFromManifest(title, ManifestUrl(resp.content_id, title),
                            resp.content_id, mresp)

\* the manifest is downloaded only after the metadata answer passed
ManifestAnswers(title, resp, texts) ==
    IF Truthy(title) /\ TracksValidation(resp).result = "ok"
      THEN ManifestResponses(texts)
      ELSE {[httpOk |-> FALSE, text |-> BrokenText]}

\* history: whether prevRun is kept
GetTracks(texts, history) ==
    \E title \in {ResolveTitle(arg) : arg \in TitleArgs}, resp \in TracksResponses :
        \E mresp \in ManifestAnswers(title, resp, texts) :
            LET out == TracksCall(title, resp, mresp)
            IN /\ tracks' = out
               /\ prevRun' = IF history THEN PrevRunAfter(out) ELSE prevRun
               /\ UNCHANGED <<title_id, slug, license, titlesHist>>

----------------------------------------------------------------------------
(* get_widevine_license *)

\* "media_id": self.title_id
LicenseMediaId == title_id

\* lines 255-274 in order: the exception raised, or the license returned
LicenseValidation(resp) ==
    IF ~resp.httpOk THEN [result |-> "http error", exc |-> "Exception"]
    ELSE IF resp.errors THEN [result |-> "graphql errors", exc |-> "ValueError"]
    ELSE IF ~resp.hasData \/ ~resp.hasLicense
      THEN [result |-> "no license", exc |-> "Exception"]
    ELSE [result |-> "license", exc |-> None]

\* The track argument is not read by the handler.  forTitle is history: the
\* title id of the latest get_tracks call at the time of the request.
GetWidevineLicense ==
    \E v \in {LicenseValidation(resp) : resp \in LicenseResponses} :
        /\ license' = [sent |-> TRUE, media_id |-> LicenseMediaId,
                       forTitle |-> tracks.title,
                       result |-> v.result, exc |-> v.exc]
        /\ UNCHANGED <<title_id, slug, tracks, titlesHist, prevRun>>

----------------------------------------------------------------------------
(* Specifications *)

\* the service object under any sequence of calls
ServiceManifests ==
    { BrokenText,
      [wellFormed |-> TRUE, cencBinding |-> CencNS, elems |-> << >>],
      [wellFormed |-> TRUE, cencBinding |-> CencNS,
       elems |-> << CP(DashNS, Mp4ProtectionScheme, "cenc:default_KID", "K1",
                       FALSE, ""),
                    CP(DashNS, WidevineScheme, "", "", TRUE, "P1") >>] }

GetTracksService == GetTracks(ServiceManifests, FALSE)

Next == GetTitles \/ GetTracksService \/ GetWidevineLicense

Spec == Init /\ [][Next]_vars

\* get_tracks alone, on a service object constructed for episode 1, called
\* with and without a title_id argument, over every manifest text of the bound
InitEpisode1 == Init /\ title_id = Episode1TitleId

GetTracksExtract == GetTracks(Manifests, FALSE)

NextExtract == GetTracksExtract

SpecExtract == InitEpisode1 /\ [][NextExtract]_vars

\* repeated runs of get_tracks with get_titles calls in between
GetTracksRepeat == GetTracks(ManifestsUpTo(MaxElemsRepeat), TRUE)

NextRepeat == GetTitles \/ GetTracksRepeat

SpecRepeat == InitEpisode1 /\ [][NextRepeat]_vars

----------------------------------------------------------------------------
(* The manifest as the specification reads it: a ContentProtection element *)
(* of the DASH schema, its cenc:default_KID attribute and its cenc:pssh    *)
(* child, both in the namespace urn:mpeg:cenc:2013.                        *)

Doc == tracks.manifest

\* get_tracks fetched a text and the text parsed
Parsed == tracks.fetched /\ ~Malformed(Doc)

IsCP(i) == Doc.elems[i].ns = DashNS

IsScheme(i, scheme) == IsCP(i) /\ Doc.elems[i].scheme = scheme

\* element i carries a non-empty default_KID
CarriesKid(i) ==
    /\ Doc.elems[i].kidName = "cenc:default_KID"
    /\ Doc.cencBinding = CencNS
    /\ Doc.elems[i].kidValue # ""

\* element i has a pssh child with non-empty text
CarriesPssh(i) ==
    /\ IsCP(i) /\ Doc.elems[i].hasPssh
    /\ Doc.cencBinding = CencNS
    /\ Doc.elems[i].psshText # ""

Elems == 1..Len(Doc.elems)
Mp4Kids == {i \in Elems : IsScheme(i, Mp4ProtectionScheme) /\ CarriesKid(i)}
WvPsshs == {i \in Elems : IsScheme(i, WidevineScheme) /\ CarriesPssh(i)}
AnyPsshs == {i \in Elems : CarriesPssh(i)}
Mp4Elems == {i \in Elems : IsScheme(i, Mp4ProtectionScheme)}

First(S) == CHOOSE i \in S : \A j \in S : i <= j

----------------------------------------------------------------------------
(* Claims *)

\* C1: a manifest that parses, with an mp4protection element carrying a
\* non-empty default_KID and a Widevine element carrying a non-empty pssh:
\* get_tracks does not fail and puts exactly that KID and that PSSH on the
\* Widevine descriptor.
C1_KidAndWidevinePsshExtracted ==
    (Parsed /\ Mp4Kids # {} /\ WvPsshs # {}) =>
        /\ tracks.result = "returned"
        /\ tracks.drm.built
        /\ \E i \in Mp4Kids : tracks.drm.kid = Doc.elems[i].kidValue
        /\ \E j \in WvPsshs : tracks.drm.pssh = Doc.elems[j].psshText

\* C2: a manifest with a KID, no Widevine element with a non-empty pssh, but
\* an element of another scheme with one: the extraction falls back and
\* returns the pssh text of the first such element in document order.
C2_FallbackPsshReturned ==
    (Parsed /\ Mp4Kids # {} /\ WvPsshs = {} /\ AnyPsshs # {}) =>
        /\ tracks.result = "returned"
        /\ tracks.fbScan
        /\ tracks.pssh = Doc.elems[First(AnyPsshs)].psshText

\* C3: a manifest that parses and has no default_KID attribute on any
\* mp4protection element: get_tracks fails with the missing kid/pssh error
\* and neither PSSH scan is entered.
NoDefaultKid == \A i \in Mp4Elems : Doc.elems[i].kidName = ""

C3_NoKidFailsBeforePsshScans ==
    (Parsed /\ NoDefaultKid) =>
        /\ tracks.result = MissingMsg /\ tracks.exc = "ValueError"
        /\ ~tracks.wvScan /\ ~tracks.fbScan

C3_Witness ==
    /\ Parsed /\ NoDefaultKid /\ WvPsshs # {}
    /\ tracks.result = MissingMsg

\* C4: all or nothing: tracks are returned only with a non-empty KID and a
\* non-empty PSSH; when either is missing after the scans the call raises
\* the error naming the manifest URL, parse_manifest is not called and no
\* Widevine descriptor is built.
C4_AllOrNothing ==
    /\ tracks.result = "returned" =>
          /\ Truthy(tracks.kid) /\ Truthy(tracks.pssh)
          /\ tracks.parseManifestCalled
          /\ tracks.drm.built /\ tracks.drm.kid = tracks.kid
          /\ tracks.drm.pssh = tracks.pssh
    /\ (tracks.kidScan /\ (~Truthy(tracks.kid) \/ ~Truthy(tracks.pssh))) =>
          /\ tracks.result = MissingMsg /\ tracks.exc = "ValueError"
          /\ tracks.manifest_url # None
          /\ ~tracks.parseManifestCalled
          /\ ~tracks.drm.built

\* KID present, no pssh element anywhere
C4_Witness ==
    /\ Parsed /\ Mp4Kids # {}
    /\ \A i \in Elems : ~Doc.elems[i].hasPssh
    /\ tracks.result = MissingMsg /\ ~tracks.drm.built

\* C5 as stated: malformed XML makes get_tracks fail with a ParseError, an
\* error of another kind than the one raised for a missing KID or PSSH.
C5_ParseErrorRaised ==
    (tracks.fetched /\ Malformed(Doc)) =>
        /\ tracks.exc = "ParseError"
        /\ tracks.exc # MissingFailure.exc

\* C5 as amended: malformed XML makes get_tracks fail with a ValueError that
\* carries the parse-failure message; the class is the one of the missing
\* kid/pssh error, the message is not, and no scan is reached.
C5_ParseFailureIsValueError ==
    (tracks.fetched /\ Malformed(Doc)) =>
        /\ tracks.exc = "ValueError"
        /\ tracks.exc = MissingFailure.exc
        /\ tracks.result = ParseFailureMsg
        /\ tracks.result # MissingFailure.result
        /\ ~tracks.kidScan /\ ~tracks.wvScan /\ ~tracks.fbScan

\* a text that is well formed but uses the prefix cenc without binding it
C5_Witness ==
    /\ tracks.fetched /\ Doc.wellFormed /\ Malformed(Doc)
    /\ tracks.result = ParseFailureMsg

C7_KidOfFirstMp4Element ==
    Parsed =>
        IF Mp4Elems # {} /\ CarriesKid(First(Mp4Elems))
          THEN tracks.kid = Doc.elems[First(Mp4Elems)].kidValue
          ELSE ~Truthy(tracks.kid) /\ tracks.result = MissingMsg

\* C8: with a KID found, the PSSH is the first non-empty pssh text of the
\* Widevine elements in document order, and the fallback scan is not run.
C8_WidevinePsshFirst ==
    (Parsed /\ Mp4Kids # {} /\ WvPsshs # {}) =>
        /\ tracks.wvScan /\ ~tracks.fbScan
        /\ tracks.pssh = Doc.elems[First(WvPsshs)].psshText

\* C9: the slug get_tracks sends is the slug of the latest get_titles call
\* that passed every validation, or "entre-lobos" if there was none; a
\* failing get_titles call and get_tracks leave self.slug as it was.
C9_SlugSentIsLatestValidated ==
    /\ tracks.sentSlug # None => tracks.sentSlug = tracks.slugDue
    /\ slug = IF titlesHist.ok = None THEN Unset ELSE titlesHist.ok

\* get_titles stored a slug, a later get_titles call failed, and get_tracks
\* sent the stored slug
C9_Witness ==
    /\ titlesHist.ok = "slug-a" /\ titlesHist.failedSince
    /\ tracks.sentSlug = "slug-a" /\ slug = "slug-a"

====
